---- MODULE Spec2Model ----
(***************************************************************************)
(* Model of main.py: the FastAPI handlers that bridge Firebase token       *)
(* verification and the Supabase `users` table.                            *)
(*                                                                         *)
(* Every handler is an `async def` whose only blocking points are the      *)
(* delegated calls (auth.verify_id_token, supabase ... .execute()).  The   *)
(* model lets requests of several server instances interleave at exactly   *)
(* those calls: one action per store call, together with all the local     *)
(* code that follows it up to the next store call or the response.         *)
(***************************************************************************)
EXTENDS Integers, FiniteSets, Sequences, TLC

\* ------------------------------------------------------------------ bounds
MaxReq == 2          \* requests of any kind handled in one behaviour of Spec
MaxLogins == 3       \* logins handled in one behaviour of SpecLogin and SpecSeq
NumUids == 2         \* distinct Firebase uids

Reqs == 1..(IF MaxReq > MaxLogins THEN MaxReq ELSE MaxLogins)
Uids == 1..NumUids

\* ------------------------------------------------------------------ inputs
None == "None"                                   \* Python's None
Tokens == {"valid", "expired", "invalid"}        \* what the bearer string is
Emails == {None, "", "a@x.com"}                  \* decoded_token.get('email')
ClaimNames == {"Ann"}                            \* decoded_token.get('name', '')
ClaimPictures == {"a.png"}                       \* decoded_token.get('picture', '')
Providers == {"password"}                        \* firebase.sign_in_provider
UpdateNames == {None, "Bob"}                     \* UserUpdateRequest.name
UpdatePictures == {None, "b.png"}                \* UserUpdateRequest.picture
HeaderTokens == {"none", "valid"}                \* Authorization header of the uid routes

\* A row of the `users` table.  `id` is the primary key the store assigns.
NoRow == [id |-> 0, firebase_uid |-> 0, email |-> None, name |-> "",
          picture |-> "", provider |-> "", email_verified |-> FALSE,
          created_at |-> 0, last_login |-> 0]

NoClaims == [uid |-> 0, email |-> None, name |-> "", picture |-> "",
             provider |-> "", email_verified |-> FALSE]

NoUpdate == [name |-> None, picture |-> None]

\* A request slot: the handler's parameters, its position and its locals.
IdleReq == [kind |-> "none", pc |-> "idle", uid |-> 0, token |-> "",
            signal |-> "none", claims |-> NoClaims, update_data |-> NoUpdate,
            branch |-> "none", existing_user |-> NoRow, user |-> NoRow,
            status |-> 0, detail |-> "", is_new_user |-> FALSE]

VARIABLES
    firebase_initialized,   \* module flag, main.py:39-52
    supabase_initialized,   \* module flag, main.py:55-71
    users,                  \* the rows of table `users`
    nextId,                 \* next primary key the store hands out
    clock,                  \* last reading of datetime.utcnow(); every reading
                            \* is taken later than, and exceeds, the one before
    req                     \* the requests

vars == <<firebase_initialized, supabase_initialized, users, nextId, clock, req>>

\* ----------------------------------------------------------- pure helpers

\* auth.verify_id_token: returns the decoded claims or raises.
verify_id_token(token, outage) ==
    IF outage THEN "CertificateFetchError"
    ELSE IF token = "valid" THEN "claims"
    ELSE IF token = "expired" THEN "ExpiredIdTokenError"
    ELSE "InvalidIdTokenError"

\* verify_firebase_token: the HTTP status it raises, 0 when it returns.
verify_firebase_token(initialized, signal) ==
    IF ~initialized THEN [status |-> 503, detail |-> "Firebase service is not configured"]
    ELSE IF signal = "claims" THEN [status |-> 0, detail |-> ""]
    ELSE [status |-> 401, detail |-> "Invalid or expired Firebase token"]

\* supabase.table('users').select('*').eq('firebase_uid', uid)
Matching(us, uid) == {u \in us : u.firebase_uid = uid}

FoundNever(existing_user) == FALSE

\* `if existing_user:` -- a row was found
Found(existing_user) == existing_user # NoRow

\* The user_record dict of create_user_in_supabase.
user_record(user_data, created, login) ==
    [id |-> 0, firebase_uid |-> user_data.uid, email |-> user_data.email,
     name |-> user_data.name, picture |-> user_data.picture,
     provider |-> user_data.provider, email_verified |-> user_data.email_verified,
     created_at |-> created, last_login |-> login]

NoUniqueViolation(us, rec) == FALSE

\* The store's uniqueness constraint on users.firebase_uid.
UniqueViolation(us, rec) == Matching(us, rec.firebase_uid) # {}

\* Pydantic's validation of UserProfile(uid=..., email=..., ...): `email: str`
\* rejects None; every other field is optional or always a str/bool in a row.
UserProfileValid(row) == row.email # None

\* UserProfile(**existing_user): the row carries `firebase_uid`, not the
\* required `uid`, so validation always fails.
UserProfileFromRowValid(row) == FALSE

\* update_fields of update_user_profile: the supplied (non-None) fields.
update_fields(update_data) ==
    {f \in {"name", "picture"} : update_data[f] # None}

ApplyAllFields(row, fields, update_data) ==
    [row EXCEPT !.name = IF update_data.name # None THEN update_data.name ELSE "",
                !.picture = IF update_data.picture # None THEN update_data.picture ELSE ""]

\* .update(fields).eq('firebase_uid', uid) with the values of update_data
ApplyFields(row, fields, update_data) ==
    [row EXCEPT !.name = IF "name" \in fields THEN update_data.name ELSE @,
                !.picture = IF "picture" \in fields THEN update_data.picture ELSE @]

TouchRowStale(row, now) == row

TouchRowAndCreated(row, now) == [row EXCEPT !.last_login = now, !.created_at = now]

\* .update({'last_login': now}).eq('firebase_uid', uid)
TouchRow(row, now) == [row EXCEPT !.last_login = now]

\* ---------------------------------------------------------- store helpers
\* Each returns the HTTP status it raises (0 when it returns normally), the
\* table afterwards and result.data.

\* get_user_from_supabase(firebase_uid)
get_user_from_supabase(initialized, up, us, firebase_uid) ==
    IF ~initialized
    THEN [status |-> 503, detail |-> "Supabase service is not configured", data |-> {}]
    ELSE IF ~up
    THEN [status |-> 500, detail |-> "Database query failed", data |-> {}]
    ELSE [status |-> 0, detail |-> "", data |-> Matching(us, firebase_uid)]

\* What `result.data[0] if result.data else None` can be.
FirstOrNone(data) == IF data = {} THEN {NoRow} ELSE data

create_user_swallowing(initialized, up, accepts, us, user_data, id, now) ==
    LET rec == [user_record(user_data, now + 1, now + 2) EXCEPT !.id = id]
    IN IF ~initialized
       THEN [status |-> 503, detail |-> "Supabase service is not configured",
             users |-> us, data |-> {}]
       ELSE IF ~up \/ ~accepts \/ UniqueViolation(us, rec)
       THEN [status |-> 0, detail |-> "", users |-> us, data |-> {rec}]
       ELSE [status |-> 0, detail |-> "", users |-> us \cup {rec}, data |-> {rec}]

\* create_user_in_supabase(user_data); `accepts`: the table's schema takes
\* the record; `id`: the key the store assigns; `now`: the clock before the
\* two utcnow() readings.  An insert that raises and one that returns no
\* data end in the same `except Exception` and give the same answer.
create_user_in_supabase(initialized, up, accepts, us, user_data, id, now) ==
    LET rec == [user_record(user_data, now + 1, now + 2) EXCEPT !.id = id]
    IN IF ~initialized
       THEN [status |-> 503, detail |-> "Supabase service is not configured",
             users |-> us, data |-> {}]
       ELSE IF ~up \/ ~accepts \/ UniqueViolation(us, rec)
       THEN [status |-> 500, detail |-> "Failed to create user in database",
             users |-> us, data |-> {}]
       ELSE [status |-> 0, detail |-> "", users |-> us \cup {rec}, data |-> {rec}]

\* update_user_last_login(firebase_uid); `now`: the utcnow() reading.
update_user_last_login(initialized, up, us, firebase_uid, now) ==
    LET hit == Matching(us, firebase_uid)
        new == {TouchRow(u, now) : u \in hit}
    IN IF ~initialized
       THEN [status |-> 503, detail |-> "Supabase service is not configured",
             users |-> us, data |-> {}]
       ELSE IF ~up \/ hit = {}
       THEN [status |-> 500, detail |-> "Failed to update user login time",
             users |-> us, data |-> {}]
       ELSE [status |-> 0, detail |-> "", users |-> (us \ hit) \cup new, data |-> new]

\* ------------------------------------------------------------------- Init

\* The table outlives the server process: at start it is empty or holds the
\* row an earlier login of uid 1 created (create_user_in_supabase with
\* id 1 at clock 0).
EarlierRow ==
    [user_record([uid |-> 1, email |-> "a@x.com", name |-> "Ann", picture |-> "a.png",
                  provider |-> "password", email_verified |-> TRUE], 1, 2)
     EXCEPT !.id = 1]

Init ==
    /\ firebase_initialized \in BOOLEAN
    /\ supabase_initialized \in BOOLEAN
    /\ \/ users = {} /\ nextId = 1 /\ clock = 0
       \/ users = {EarlierRow} /\ nextId = 2 /\ clock = 2
    /\ req = [r \in Reqs |-> IdleReq]

\* Both services configured, the table empty.
InitReady ==
    /\ firebase_initialized = TRUE
    /\ supabase_initialized = TRUE
    /\ users = {} /\ nextId = 1 /\ clock = 0
    /\ req = [r \in Reqs |-> IdleReq]

\* Requests take the slots in order.
NextSlot(r) ==
    /\ req[r].pc = "idle"
    /\ \A q \in Reqs : q < r => req[q].pc # "idle"

Finish(r, status, detail) ==
    req' = [req EXCEPT ![r].pc = "done", ![r].status = status, ![r].detail = detail]

store == <<users, nextId, clock>>
config == <<firebase_initialized, supabase_initialized>>

\* ------------------------------------------------------------------ login

\* POST /auth/login, step 1: verify_firebase_token(token_request.idToken)
LoginVerify(r) ==
    /\ NextSlot(r)
    /\ \E uid \in Uids, token \in Tokens, email \in Emails, name \in ClaimNames,
          picture \in ClaimPictures, provider \in Providers, outage \in BOOLEAN :
         LET signal == IF firebase_initialized THEN verify_id_token(token, outage)
                       ELSE "none"
             v == verify_firebase_token(firebase_initialized, signal)
             decoded == [uid |-> uid, email |-> email, name |-> name,
                         picture |-> picture, provider |-> provider,
                         email_verified |-> TRUE]
             started == [IdleReq EXCEPT !.kind = "login", !.signal = signal]
         IN req' = [req EXCEPT ![r] =
                IF v.status # 0
                THEN [started EXCEPT !.pc = "done", !.status = v.status,
                                     !.detail = v.detail]
                ELSE [started EXCEPT !.pc = "lookup", !.claims = decoded,
                                     !.uid = decoded.uid]]
    /\ UNCHANGED <<config, store>>

\* step 2: existing_user = await get_user_from_supabase(firebase_uid)
LoginLookup(r, ups) ==
    /\ req[r].kind = "login" /\ req[r].pc = "lookup"
    /\ \E up \in ups :
       LET g == get_user_from_supabase(supabase_initialized, up, users, req[r].uid)
       IN IF g.status # 0
          THEN Finish(r, g.status, g.detail)
          ELSE \E e \in FirstOrNone(g.data) :
                 req' = [req EXCEPT ![r].existing_user = e,
                                    ![r].branch = IF Found(e) THEN "found" ELSE "new",
                                    ![r].pc = IF Found(e) THEN "touch" ELSE "create"]
    /\ UNCHANGED <<config, store>>

\* steps 4-5: UserProfile(...) and AuthResponse(...) from user_data
Respond(r, data, is_new_user) ==
    \E row \in data :
       IF UserProfileValid(row)
       THEN req' = [req EXCEPT ![r].pc = "done", ![r].status = 200,
                               ![r].detail = "", ![r].user = row,
                               ![r].is_new_user = is_new_user]
       ELSE Finish(r, 500, "Internal server error during authentication")

\* step 3a: update_user_last_login, then the response
LoginTouch(r, ups) ==
    /\ req[r].kind = "login" /\ req[r].pc = "touch"
    /\ \E up \in ups :
       LET u == update_user_last_login(supabase_initialized, up, users,
                                       req[r].uid, clock + 1)
       IN /\ users' = u.users
          /\ clock' = clock + 1
          /\ IF u.status # 0 THEN Finish(r, u.status, u.detail)
             ELSE Respond(r, u.data, FALSE)
    /\ UNCHANGED <<config, nextId>>

\* step 3b: create_user_in_supabase, then the response
LoginCreate(r, ups) ==
    /\ req[r].kind = "login" /\ req[r].pc = "create"
    /\ \E up \in ups,
          accepts \in (IF req[r].claims.email = None THEN BOOLEAN ELSE {TRUE}) :
         LET c == create_user_in_supabase(supabase_initialized, up, accepts,
                                          users, req[r].claims, nextId, clock)
         IN /\ users' = c.users
            /\ nextId' = IF c.status = 0 THEN nextId + 1 ELSE nextId
            /\ clock' = clock + 2
            /\ IF c.status # 0 THEN Finish(r, c.status, c.detail)
               ELSE Respond(r, c.data, TRUE)
    /\ UNCHANGED config

\* ------------------------------------------------------------ GET profile

\* GET /auth/user/{firebase_uid}: get_user_profile.  The handler takes the
\* uid from the path and reads no Authorization header.
GetUserProfile(r, ups) ==
    /\ NextSlot(r)
    /\ \E uid \in Uids, token \in HeaderTokens, up \in ups :
         LET started == [IdleReq EXCEPT !.kind = "get", !.uid = uid, !.token = token,
                                        !.pc = "done"]
             g == get_user_from_supabase(supabase_initialized, up, users, uid)
         IN IF g.status # 0
            THEN req' = [req EXCEPT ![r] = [started EXCEPT !.status = g.status,
                                                           !.detail = g.detail]]
            ELSE \E e \in FirstOrNone(g.data) :
                   req' = [req EXCEPT ![r] =
                      IF ~Found(e)
                      THEN [started EXCEPT !.status = 404, !.detail = "User not found"]
                      ELSE IF UserProfileValid(e)
                      THEN [started EXCEPT !.existing_user = e, !.user = e,
                                           !.status = 200]
                      ELSE [started EXCEPT !.existing_user = e, !.status = 500,
                                           !.detail = "Failed to fetch user profile"]]
    /\ UNCHANGED <<config, store>>

\* --------------------------------------------------------- PUT profile

\* PUT /auth/user/{firebase_uid}: update_user_profile up to its update call.
PutLookup(r, ups) ==
    /\ NextSlot(r)
    /\ \E uid \in Uids, token \in HeaderTokens, name \in UpdateNames,
          picture \in UpdatePictures, up \in ups :
         LET update_data == [name |-> name, picture |-> picture]
             started == [IdleReq EXCEPT !.kind = "put", !.uid = uid, !.token = token,
                                        !.update_data = update_data, !.pc = "done"]
             g == get_user_from_supabase(supabase_initialized, up, users, uid)
         IN IF g.status # 0
            THEN req' = [req EXCEPT ![r] = [started EXCEPT !.status = g.status,
                                                           !.detail = g.detail]]
            ELSE \E e \in FirstOrNone(g.data) :
                   req' = [req EXCEPT ![r] =
                      IF ~Found(e)
                      THEN [started EXCEPT !.status = 404, !.detail = "User not found"]
                      ELSE IF update_fields(update_data) = {}
                      THEN IF UserProfileFromRowValid(e)
                           THEN [started EXCEPT !.existing_user = e, !.user = e,
                                                !.status = 200]
                           ELSE [started EXCEPT !.existing_user = e, !.status = 500,
                                                !.detail = "Failed to update user profile"]
                      ELSE [started EXCEPT !.existing_user = e, !.pc = "write"]]
    /\ UNCHANGED <<config, store>>

\* supabase.table('users').update(update_fields).eq('firebase_uid', uid)
UpdateRows(us, firebase_uid, update_data) ==
    LET hit == Matching(us, firebase_uid)
        new == {ApplyFields(u, update_fields(update_data), update_data) : u \in hit}
    IN [users |-> (us \ hit) \cup new, data |-> new]

\* update_user_profile from its update call to the response.
PutWrite(r, ups) ==
    /\ req[r].kind = "put" /\ req[r].pc = "write"
    /\ \E up \in ups :
       IF ~up
       THEN /\ Finish(r, 500, "Failed to update user profile")
            /\ UNCHANGED users
       ELSE LET w == UpdateRows(users, req[r].uid, req[r].update_data)
            IN /\ users' = w.users
               /\ IF w.data = {}
                  THEN Finish(r, 500, "Failed to update user profile")
                  ELSE \E row \in w.data :
                         IF UserProfileValid(row)
                         THEN req' = [req EXCEPT ![r].pc = "done", ![r].status = 200,
                                                 ![r].user = row]
                         ELSE Finish(r, 500, "Failed to update user profile")
    /\ UNCHANGED <<config, nextId, clock>>

\* ------------------------------------------------------ DELETE profile

\* DELETE /auth/user/{firebase_uid}: delete_user up to its delete call.
DeleteLookup(r, ups) ==
    /\ NextSlot(r)
    /\ \E uid \in Uids, up \in ups :
         LET started == [IdleReq EXCEPT !.kind = "delete", !.uid = uid, !.pc = "done"]
             g == get_user_from_supabase(supabase_initialized, up, users, uid)
         IN IF g.status # 0
            THEN req' = [req EXCEPT ![r] = [started EXCEPT !.status = g.status,
                                                           !.detail = g.detail]]
            ELSE \E e \in FirstOrNone(g.data) :
                   req' = [req EXCEPT ![r] =
                      IF ~Found(e)
                      THEN [started EXCEPT !.status = 404, !.detail = "User not found"]
                      ELSE [started EXCEPT !.existing_user = e, !.pc = "remove"]]
    /\ UNCHANGED <<config, store>>

\* supabase.table('users').delete().eq('firebase_uid', uid), then the response.
DeleteRemove(r, ups) ==
    /\ req[r].kind = "delete" /\ req[r].pc = "remove"
    /\ \E up \in ups :
       IF ~up
       THEN /\ Finish(r, 500, "Failed to delete user")
            /\ UNCHANGED users
       ELSE /\ users' = users \ Matching(users, req[r].uid)
            /\ Finish(r, 200, "")
    /\ UNCHANGED <<config, nextId, clock>>

\* --------------------------------------------------------- specifications

\* Every store call takes `ups`, the answers the store may give it: TRUE,
\* it executes the call; FALSE, execute() raises (the store is unreachable).
Healthy == {TRUE}
Flaky == BOOLEAN

\* Any requests, interleaved at their store calls, on a store that may fail.
Next ==
    \/ \E r \in 1..MaxReq : LoginVerify(r)
    \/ \E r \in 1..MaxReq : LoginLookup(r, Flaky)
    \/ \E r \in 1..MaxReq : LoginTouch(r, Flaky)
    \/ \E r \in 1..MaxReq : LoginCreate(r, Flaky)
    \/ \E r \in 1..MaxReq : GetUserProfile(r, Flaky)
    \/ \E r \in 1..MaxReq : PutLookup(r, Flaky)
    \/ \E r \in 1..MaxReq : PutWrite(r, Flaky)
    \/ \E r \in 1..MaxReq : DeleteLookup(r, Flaky)
    \/ \E r \in 1..MaxReq : DeleteRemove(r, Flaky)

Spec == Init /\ [][Next]_vars

\* Logins only, interleaved at their store calls, on a healthy store.
NextLogin ==
    \/ \E r \in 1..MaxLogins : LoginVerify(r)
    \/ \E r \in 1..MaxLogins : LoginLookup(r, Healthy)
    \/ \E r \in 1..MaxLogins : LoginTouch(r, Healthy)
    \/ \E r \in 1..MaxLogins : LoginCreate(r, Healthy)

SpecLogin == InitReady /\ [][NextLogin]_vars

\* Logins only, one after the other: a login starts when none is in flight.
NoneInFlight == \A q \in Reqs : req[q].pc \in {"idle", "done"}

NextSeq ==
    \/ \E r \in 1..MaxLogins : NoneInFlight /\ LoginVerify(r)
    \/ \E r \in 1..MaxLogins : LoginLookup(r, Healthy)
    \/ \E r \in 1..MaxLogins : LoginTouch(r, Healthy)
    \/ \E r \in 1..MaxLogins : LoginCreate(r, Healthy)

SpecSeq == InitReady /\ [][NextSeq]_vars

\* Any requests, interleaved at their store calls, on a healthy store.
NextHealthy ==
    \/ \E r \in 1..MaxReq : LoginVerify(r)
    \/ \E r \in 1..MaxReq : LoginLookup(r, Healthy)
    \/ \E r \in 1..MaxReq : LoginTouch(r, Healthy)
    \/ \E r \in 1..MaxReq : LoginCreate(r, Healthy)
    \/ \E r \in 1..MaxReq : GetUserProfile(r, Healthy)
    \/ \E r \in 1..MaxReq : PutLookup(r, Healthy)
    \/ \E r \in 1..MaxReq : PutWrite(r, Healthy)
    \/ \E r \in 1..MaxReq : DeleteLookup(r, Healthy)
    \/ \E r \in 1..MaxReq : DeleteRemove(r, Healthy)

SpecHealthy == Init /\ [][NextHealthy]_vars

\* ------------------------------------------------------------------ claims

Logins == {r \in Reqs : req[r].kind = "login"}
Done == {r \in Reqs : req[r].pc = "done"}
RowsOf(uid) == Matching(users, uid)

\* C1: in every reachable state the users table holds at most one row per
\* firebase_uid, whatever the interleaving of logins, updates and deletes; a
\* login for a uid that has a row never inserts a second one.
C1_OneRowPerUid ==
    \A uid \in Uids : Cardinality(RowsOf(uid)) <= 1

\* Two logins of one uid both read "not found", both attempted the insert,
\* and one row is stored.
C1_Witness ==
    \E r1, r2 \in Logins \cap Done :
       /\ r1 # r2 /\ req[r1].uid = req[r2].uid
       /\ req[r1].branch = "new" /\ req[r2].branch = "new"
       /\ req[r1].status = 200
       /\ Cardinality(RowsOf(req[r1].uid)) = 1

\* C2: when logins of one never-seen uid, each carrying an email, all read
\* "not found" before any of them inserts, then once they have answered
\* exactly one returned success with is_new_user = true, backed by the only
\* row of that uid, and every other one answered "Failed to create user in
\* database" (500) with no profile.
Racers(uid) == {r \in Logins : req[r].uid = uid /\ req[r].branch = "new"}

SeqLoginsOf(uid) == {r \in Logins : req[r].uid = uid}

C3_SequentialIdempotent ==
    \A uid \in Uids :
       LET L == SeqLoginsOf(uid)
           D == L \cap Done
           first == CHOOSE r \in D : \A q \in D : r <= q
       IN ((\A r \in L : req[r].claims.email # None) /\ D # {}) =>
            /\ req[first].status = 200
            /\ req[first].is_new_user /\ req[first].branch = "new"
            /\ \A r \in D \ {first} :
                  /\ req[r].status = 200
                  /\ ~req[r].is_new_user /\ req[r].branch = "found"
                  /\ req[r].user.id = req[first].user.id
            /\ Cardinality(RowsOf(uid)) = 1

C3_Witness ==
    \E uid \in Uids :
       /\ Cardinality({r \in SeqLoginsOf(uid) \cap Done : req[r].status = 200}) >= 3
       /\ Cardinality(RowsOf(uid)) = 1


\* C4: a login that finds a profile and succeeds answers is_new_user = false
\* with the stored row of that uid, whose id the write leaves unchanged (and
\* which is the id found at lookup when that row is still stored), and
\* whose last_login after the write is strictly greater than both the value
\* stored before the write and the value the login found at its lookup.
TouchStep(r) ==
    /\ req[r].kind = "login" /\ req[r].pc = "touch"
    /\ req'[r].pc = "done"

SameButLastLogin(a, b) == [a EXCEPT !.last_login = 0] = [b EXCEPT !.last_login = 0]

FoundLoginStep(r) ==
    /\ req[r].kind = "login" /\ req'[r] # req[r]
    /\ req'[r].branch = "found"

C5_LoginOnlyTouchesLastLogin ==
    [][\A r \in Reqs :
         FoundLoginStep(r) =>
            /\ Cardinality(users') = Cardinality(users)
            /\ \A a \in users' : \E b \in users :
                  /\ a.id = b.id
                  /\ SameButLastLogin(a, b)
                  /\ b.firebase_uid # req'[r].uid => a = b]_vars

\* A found-branch login has answered 200 although its claims carry another
\* email than the stored one, and the answer shows the stored email.
C5_Witness ==
    \E r \in Logins \cap Done :
       /\ req[r].branch = "found" /\ req[r].status = 200
       /\ req[r].claims.email # req[r].user.email
       /\ req[r].user.email = req[r].existing_user.email
       /\ req[r].user.last_login # req[r].existing_user.last_login

\* C6: every step of update_user_profile leaves each field it was not asked
\* to set as it was: no row appears or disappears, a row changes only in
\* name when a name was supplied and only in picture when a picture was
\* supplied, and the rows of other uids are untouched.
PutStep(r) == req'[r].kind = "put" /\ req'[r] # req[r]

C6_PartialUpdate ==
    [][\A r \in Reqs :
         PutStep(r) =>
            LET d == req'[r].update_data
            IN /\ Cardinality(users') = Cardinality(users)
               /\ \A a \in users' : \E b \in users :
                     /\ a.id = b.id
                     /\ [a EXCEPT !.name = "", !.picture = ""]
                          = [b EXCEPT !.name = "", !.picture = ""]
                     /\ d.name = None => a.name = b.name
                     /\ d.picture = None => a.picture = b.picture
                     /\ b.firebase_uid # req'[r].uid => a = b]_vars

\* An update that supplied a name and no picture has answered 200: the name
\* is the new one, the picture the one found before.
C6_Witness ==
    \E r \in Done :
       /\ req[r].kind = "put" /\ req[r].status = 200
       /\ req[r].update_data.name # None /\ req[r].update_data.picture = None
       /\ req[r].user.name = req[r].update_data.name
       /\ req[r].user.name # req[r].existing_user.name
       /\ req[r].user.picture = req[r].existing_user.picture
       /\ req[r].user \in users

\* C7: a login whose verified claims have an absent or empty email and whose
\* lookup found no profile answers 400, and the table holds no row of that
\* uid with such an email.
EmailMissing(email) == email = None \/ email = ""

C7_EmailMissingRejected ==
    \A r \in Logins \cap Done :
       (req[r].branch = "new" /\ EmailMissing(req[r].claims.email)) =>
          /\ req[r].status = 400
          /\ \A u \in RowsOf(req[r].uid) : ~EmailMissing(u.email)

\* C8: the profile update never creates a profile: whenever it answers while
\* the table holds no row of its uid (at its lookup, or at its write after a
\* concurrent delete) the answer is 404 and the table still holds no row of
\* that uid.
PutAnswers(r) ==
    /\ req'[r].kind = "put" /\ req'[r].pc = "done" /\ req[r].pc # "done"
    /\ supabase_initialized

C8_UpdateOfMissingIs404 ==
    [][\A r \in Reqs :
         (PutAnswers(r) /\ RowsOf(req'[r].uid) = {}) =>
            /\ req'[r].status = 404
            /\ {u \in users' : u.firebase_uid = req'[r].uid} = {}]_vars

\* C9: a token verification that failed because the identity provider's
\* verification service was unreachable answers 503, an expired or invalid
\* token answers 401; an outage is never answered as an invalid token.
C9_OutageIs503 ==
    \A r \in Logins \cap Done :
       /\ req[r].signal = "CertificateFetchError" => req[r].status = 503
       /\ req[r].signal \in {"ExpiredIdTokenError", "InvalidIdTokenError"}
             => req[r].status = 401

\* C10: on the profile-read and profile-update routes of a configured
\* server a request without a valid bearer token answers 401 at once: it never waits on a store call,
\* never holds a row read from the store and never gets a profile back.
C10_UidRoutesNeedToken ==
    \A r \in Reqs :
       (req[r].kind \in {"get", "put"} /\ req[r].token # "valid"
          /\ supabase_initialized) =>
          /\ req[r].pc = "done" /\ req[r].status = 401
          /\ req[r].existing_user = NoRow /\ req[r].user = NoRow

\* C11: a login that read "not found" and whose creation step ends with an
\* error answer (the insert raised or returned no data, or building the
\* response failed after the insert) leaves no row of its uid behind: when
\* the table held no row of that uid before the step it holds none after
\* it, so that the next login of that uid reads "not found" again.
CreateStep(r) ==
    /\ req[r].kind = "login" /\ req[r].pc = "create"
    /\ req'[r].pc = "done"

C11_NoHalfCreated ==
    [][\A r \in Reqs :
         (CreateStep(r) /\ req'[r].status # 200 /\ RowsOf(req[r].uid) = {}) =>
            {u \in users' : u.firebase_uid = req[r].uid} = {}]_vars

\* C12: on a configured server an update of a uid that has a row answers 200
\* with the stored row of that uid as it is after the call, for every set of
\* supplied fields; when neither name nor picture is supplied the table is
\* left as it was and the answer is the row that was found, never an error.
C12_UpdateReturnsProfile ==
    [][\A r \in Reqs :
         (PutAnswers(r) /\ RowsOf(req'[r].uid) # {}) =>
            /\ req'[r].status = 200
            /\ req'[r].user \in users'
            /\ req'[r].user.firebase_uid = req'[r].uid
            /\ update_fields(req'[r].update_data) = {} =>
                  /\ users' = users
                  /\ req'[r].user \in users]_vars

====
